---- MODULE Spec2Model ----
(***************************************************************************)
(* Model of the retrieval core of RAG_Document_QA_Portal:                  *)
(*   - split_into_chunks          (src/src/rag_pipeline.py)                *)
(*   - hybrid_chunk_search        (src/src/rag_pipeline.py)                *)
(*   - document_detail, 'qa' mode (src/src/views.py)                       *)
(*   - get_client / generate_answer_with_context (src/src/llm_client.py)   *)
(*                                                                         *)
(* Strings are sequences of one-character strings.  Python's None is the   *)
(* value None below.  Real-valued scores are exact fixed-point numbers:    *)
(* raw scores count units of RawUnit = 0.5e-9, normalised scores are       *)
(* numerators over NormDen, alpha is a numerator over AlphaDen, and fused  *)
(* scores are numerators over FusedDen = AlphaDen * NormDen.               *)
(***************************************************************************)
EXTENDS Integers, Sequences, FiniteSets, TLC

VARIABLES
    \* ---- split_into_chunks ----
    raw_text,       \* the text argument (a string or None)
    max_chars,      \* argument
    overlap,        \* argument
    text,           \* local: (text or "").strip()
    n,              \* local: len(text)
    start,          \* local: window start
    chunks,         \* local: the list being built
    windows,        \* trace of the (start, end) pairs the loop has used
    iters,          \* number of loop bodies executed
    cpc,            \* position in split_into_chunks
    \* ---- hybrid_chunk_search ----
    doc_chunks,     \* number of chunks of the document (document.chunks)
    query,          \* argument, then the local (query or "").strip()
    top_k,          \* argument
    alpha,          \* argument, a numerator over AlphaDen
    bm25_scores,    \* local: BM25 score of every chunk
    semantic_scores,\* local: cosine similarity of every chunk
    bm25_norm,      \* local: numerators over NormDen
    sem_norm,       \* local: numerators over NormDen
    final_scores,   \* local: numerators over FusedDen
    results,        \* the returned list of {rank, score, text}
    bm25_built,     \* whether BM25Okapi(...) was constructed
    encode_calls,   \* number of calls of the embedding model's encode
    spc,            \* position in hybrid_chunk_search
    \* ---- document_detail, mode 'qa', and llm_client ----
    has_content,    \* whether doc.content is non-empty
    question,       \* the posted question, then the trimmed local
    search_results, \* local
    top_score,      \* local: numerator over FusedDen, NoValue before it is set
    confidence,     \* local: integer percentage, NoValue for None
    llm_answer,     \* local: which answer the page shows
    llm_invoked,    \* whether generate_answer_with_context was called
    client,         \* llm_client._client: "none" or "set"
    api_key,        \* whether OPENAI_API_KEY is set in the environment
    history,        \* QuestionHistory rows created by the request
    raised,         \* the exception that left document_detail, "none" if none
    vpc             \* position in document_detail

chunkVars == <<raw_text, max_chars, overlap, text, n, start, chunks, windows, iters, cpc>>

searchArgs == <<doc_chunks, top_k, alpha>>

searchLocals == <<bm25_scores, semantic_scores, bm25_norm, sem_norm, final_scores,
                  results, bm25_built, encode_calls, spc>>

searchVars == <<searchArgs, query, searchLocals>>

viewVars == <<has_content, question, search_results, top_score, confidence, llm_answer,
              llm_invoked, client, api_key, history, raised, vpc>>

vars == <<chunkVars, searchVars, viewVars>>

----------------------------------------------------------------------------
\* Bounds of the model

MaxLen == 4
NegParam == 1
MaxParam == 3
MaxChunks == 2
MaxRaw == 2
NegTopK == 1

Alphabet == {"a", "b", " "}
Whitespace == {" "}

None == <<"None">>

Min(a, b) == IF a <= b THEN a ELSE b
Max(a, b) == IF a >= b THEN a ELSE b

\* All strings over Alphabet of length at most k
Strings(k) == UNION {[1..m -> Alphabet] : m \in 0..k}

ParamRange == (0 - NegParam)..MaxParam

\* One more iteration than any terminating call needs; stops the model of a
\* call whose loop never ends.
IterCap == MaxLen + 2

----------------------------------------------------------------------------
\* Python string primitives

\* `x or ""`
OrEmpty(x) == IF x = None THEN <<>> ELSE x

\* s[a:b] with Python's treatment of negative and out-of-range indices
PyIndex(i, len) == IF i < 0 THEN Max(i + len, 0) ELSE Min(i, len)

PySlice(s, a, b) ==
    LET lo == PyIndex(a, Len(s))
        hi == PyIndex(b, Len(s))
    IN  IF lo < hi THEN SubSeq(s, lo + 1, hi) ELSE <<>>

\* str.strip()
RECURSIVE LStrip(_)
LStrip(s) == IF s # <<>> /\ Head(s) \in Whitespace THEN LStrip(Tail(s)) ELSE s

RECURSIVE RStrip(_)
RStrip(s) ==
    IF s # <<>> /\ s[Len(s)] \in Whitespace THEN RStrip(SubSeq(s, 1, Len(s) - 1)) ELSE s

Strip(s) == RStrip(LStrip(s))

----------------------------------------------------------------------------
\* split_into_chunks(text, max_chars, overlap)

\* Faulty variant of the window end: one character short
WindowEndShort(s, m, len) == Min(s + m - 1, len)

\* end = min(start + max_chars, n)
WindowEnd(s, m, len) == Min(s + m, len)

\* Faulty variants of the advance, used to test the chunker's properties
NextStartSlow(e, o) == Max(0, e - o - 1)
NextStartSkip(e, o) == Max(0, e - o + 1)

\* start = max(0, end - overlap)
NextStart(e, o) == Max(0, e - o)

\* The chunker's variables while no call of split_into_chunks is modelled
ChunkIdle ==
    /\ raw_text = <<>>
    /\ max_chars = 0
    /\ overlap = 0
    /\ text = <<>>
    /\ n = 0
    /\ start = 0
    /\ chunks = <<>>
    /\ windows = <<>>
    /\ iters = 0
    /\ cpc = "idle"

\* The search's variables while no call of hybrid_chunk_search is modelled
SearchIdle ==
    /\ doc_chunks = 0
    /\ query = <<>>
    /\ top_k = 0
    /\ alpha = 0
    /\ bm25_scores = <<>>
    /\ semantic_scores = <<>>
    /\ bm25_norm = <<>>
    /\ sem_norm = <<>>
    /\ final_scores = <<>>
    /\ results = <<>>
    /\ bm25_built = FALSE
    /\ encode_calls = 0
    /\ spc = "idle"

\* Python's None where a number is expected
NoValue == 0 - 1

\* The view's variables while no request to document_detail is modelled
ViewIdle ==
    /\ has_content = FALSE
    /\ question = <<>>
    /\ search_results = <<>>
    /\ top_score = NoValue
    /\ confidence = NoValue
    /\ llm_answer = "None"
    /\ llm_invoked = FALSE
    /\ client = "none"
    /\ api_key = FALSE
    /\ history = <<>>
    /\ raised = "none"
    /\ vpc = "idle"

ChunkInit ==
    /\ raw_text \in Strings(MaxLen) \cup {None}
    /\ max_chars \in ParamRange
    /\ overlap \in ParamRange
    /\ text = <<>>
    /\ n = 0
    /\ start = 0
    /\ chunks = <<>>
    /\ windows = <<>>
    /\ iters = 0
    /\ cpc = "call"
    /\ SearchIdle
    /\ ViewIdle

\* lines 39-45: trim, early return on empty text, initialise the walk
SplitEnter ==
    /\ cpc = "call"
    /\ text' = Strip(OrEmpty(raw_text))
    /\ IF text' = <<>>
         THEN /\ cpc' = "done"
              /\ n' = n
         ELSE /\ cpc' = "loop"
              /\ n' = Len(text')
    /\ start' = 0
    /\ chunks' = <<>>
    /\ UNCHANGED <<raw_text, max_chars, overlap, windows, iters>>
    /\ UNCHANGED <<searchVars, viewVars>>

\* lines 47-57: one execution of the loop body
SplitIter ==
    /\ cpc = "loop"
    /\ start < n
    /\ iters < IterCap
    /\ LET end == WindowEnd(start, max_chars, n)
           chunk == Strip(PySlice(text, start, end))
       IN  /\ chunks' = IF chunk # <<>> THEN Append(chunks, chunk) ELSE chunks
           /\ windows' = Append(windows, <<start, end>>)
           /\ IF end = n
                THEN /\ cpc' = "done"
                     /\ start' = start
                ELSE /\ cpc' = "loop"
                     /\ start' = NextStart(end, overlap)
    /\ iters' = iters + 1
    /\ UNCHANGED <<raw_text, max_chars, overlap, text, n>>
    /\ UNCHANGED <<searchVars, viewVars>>

\* line 47 false: the while condition fails, fall through to the return
SplitExit ==
    /\ cpc = "loop"
    /\ start >= n
    /\ cpc' = "done"
    /\ UNCHANGED <<raw_text, max_chars, overlap, text, n, start, chunks, windows, iters>>
    /\ UNCHANGED <<searchVars, viewVars>>

ChunkNext == SplitEnter \/ SplitIter \/ SplitExit

ChunkSpec == ChunkInit /\ [][ChunkNext]_vars

\* The interpreter keeps executing the loop: a call that can take a step does.
ChunkFairSpec == ChunkSpec /\ WF_vars(ChunkNext)

\* line 34: the defaults max_chars=600, overlap=100
DefaultMaxChars == 600
DefaultOverlap == 100

\* Texts of 1000 characters: letters, with a space at any of a few places
\* (the two ends, inside the windows, and on the window boundaries)
ScenarioSpaces == {1, 300, 501, 600, 800, 1000}
ScenarioTexts ==
    {[i \in 1..1000 |-> IF i \in W THEN " " ELSE "a"] : W \in SUBSET ScenarioSpaces}

\* split_into_chunks(text) with the default arguments on a 1000-character text
ScenarioInit ==
    /\ raw_text \in ScenarioTexts
    /\ max_chars = DefaultMaxChars
    /\ overlap = DefaultOverlap
    /\ text = <<>>
    /\ n = 0
    /\ start = 0
    /\ chunks = <<>>
    /\ windows = <<>>
    /\ iters = 0
    /\ cpc = "call"
    /\ SearchIdle
    /\ ViewIdle

\* With these arguments the loop leaves by the break of line 54; the while
\* condition of line 47 never fails, so SplitExit has no part in it.
ScenarioNext == SplitEnter \/ SplitIter

ScenarioSpec == ScenarioInit /\ [][ScenarioNext]_vars

----------------------------------------------------------------------------
\* hybrid_chunk_search(document, query, top_k, alpha)
\*
\* A chunk is named by its position 1..doc_chunks in chunk_index order; the
\* "text" of a result is that position.  BM25Okapi and the embedding model are
\* collaborators: their score vectors are any vectors over RawScores.

\* 1e-9 in raw units
Eps == 2

RawScores == 0..MaxRaw

RECURSIVE Fact(_)
Fact(k) == IF k <= 1 THEN 1 ELSE k * Fact(k - 1)

\* Every difference max - min of raw scores divides NormDen
NormDen == Fact(MaxRaw)
AlphaDen == 4 * 5
FusedDen == AlphaDen * NormDen

Alphas == {0, 10, 12, AlphaDen}
TopKs == (0 - NegTopK)..(MaxChunks + 1)
Queries == {None, <<>>, <<" ">>, <<" ", "a", " ">>}

SeqMin(v) == CHOOSE x \in {v[i] : i \in DOMAIN v} : \A i \in DOMAIN v : x <= v[i]
SeqMax(v) == CHOOSE x \in {v[i] : i \in DOMAIN v} : \A i \in DOMAIN v : x >= v[i]

\* Faulty variants of the normalisation
NormalizeZeros(v) ==
    LET mn == SeqMin(v)
        mx == SeqMax(v)
    IN  IF mx - mn < Eps
          THEN [i \in DOMAIN v |-> 0]
          ELSE [i \in DOMAIN v |-> ((v[i] - mn) * NormDen) \div (mx - mn)]

\* lines 116-121 and 133-137: min-max normalisation with the degenerate case
Normalize(v) ==
    LET mn == SeqMin(v)
        mx == SeqMax(v)
    IN  IF mx - mn < Eps
          THEN [i \in DOMAIN v |-> NormDen]
          ELSE [i \in DOMAIN v |-> ((v[i] - mn) * NormDen) \div (mx - mn)]

FuseSwapped(a, s, b) == a * b + (AlphaDen - a) * s

\* line 141: alpha * sem_norm + (1.0 - alpha) * bm25_norm, one element
Fuse(a, s, b) == a * s + (AlphaDen - a) * b

Perms(S) == {p \in [1..Cardinality(S) -> S] : \A x \in S : \E i \in DOMAIN p : p[i] = x}

\* np.argsort(v): any ordering of the positions by ascending value (the
\* default sort is not stable, so equal values come in any order)
Argsorts(v) ==
    {p \in Perms(DOMAIN v) : \A i, j \in DOMAIN p : i < j => v[p[i]] <= v[p[j]]}

Reverse(p) == [i \in 1..Len(p) |-> p[Len(p) + 1 - i]]

TopSliceOneMore(p, k) == PySlice(Reverse(p), 0, k + 1)
TopSliceAscending(p, k) == PySlice(p, 0, k)

\* line 144: [::-1][:top_k]
TopSlice(p, k) == PySlice(Reverse(p), 0, k)

\* lines 146-154
BuildResults(idx, f) == [r \in 1..Len(idx) |-> [rank |-> r, score |-> f[idx[r]], text |-> idx[r]]]

QueryIsBlankNoStrip(q) == OrEmpty(q) = <<>>

\* lines 97-98: the query is empty once trimmed
QueryIsBlank(q) == Strip(OrEmpty(q)) = <<>>

\* the early returns of lines 98-99 and 103-104
SearchReturnsEmpty ==
    /\ bm25_scores' = <<>>
    /\ semantic_scores' = <<>>
    /\ bm25_norm' = <<>>
    /\ sem_norm' = <<>>
    /\ final_scores' = <<>>
    /\ results' = <<>>
    /\ bm25_built' = FALSE
    /\ encode_calls' = 0
    /\ spc' = "returned"

\* lines 106-156 with the collaborators' answers bm, sem
SearchScores(k, a, bm, sem) ==
    LET bn == Normalize(bm)
        sn == Normalize(sem)
        fs == [i \in DOMAIN bm |-> Fuse(a, sn[i], bn[i])]
    IN  /\ bm25_scores' = bm
        /\ bm25_norm' = bn
        /\ semantic_scores' = sem
        /\ sem_norm' = sn
        /\ final_scores' = fs
        /\ \E sorted_idx \in Argsorts(fs) : results' = BuildResults(TopSlice(sorted_idx, k), fs)
        /\ bm25_built' = TRUE
        /\ encode_calls' = 2
        /\ spc' = "returned"

\* lines 106-125 when the embedding model's encode raises: the call aborts
SearchEncodeRaises(bm) ==
    /\ bm25_scores' = bm
    /\ bm25_norm' = Normalize(bm)
    /\ semantic_scores' = <<>>
    /\ sem_norm' = <<>>
    /\ final_scores' = <<>>
    /\ results' = <<>>
    /\ bm25_built' = TRUE
    /\ encode_calls' = 1
    /\ spc' = "raised"

\* The whole call: lines 97-156
SearchBody(d, q, k, a) ==
    /\ query' = Strip(OrEmpty(q))
    /\ IF QueryIsBlank(q) \/ d = 0
         THEN SearchReturnsEmpty
         ELSE \E bm \in [1..d -> RawScores] :
                \E encode_ok \in BOOLEAN :
                  IF encode_ok
                    THEN \E sem \in [1..d -> RawScores] : SearchScores(k, a, bm, sem)
                    ELSE SearchEncodeRaises(bm)

SearchInit ==
    /\ ChunkIdle
    /\ ViewIdle
    /\ doc_chunks \in 0..MaxChunks
    /\ query \in Queries
    /\ top_k \in TopKs
    /\ alpha \in Alphas
    /\ bm25_scores = <<>>
    /\ semantic_scores = <<>>
    /\ bm25_norm = <<>>
    /\ sem_norm = <<>>
    /\ final_scores = <<>>
    /\ results = <<>>
    /\ bm25_built = FALSE
    /\ encode_calls = 0
    /\ spc = "call"

HybridSearch ==
    /\ spc = "call"
    /\ SearchBody(doc_chunks, query, top_k, alpha)
    /\ UNCHANGED searchArgs
    /\ UNCHANGED <<chunkVars, viewVars>>

SearchNext == HybridSearch

SearchSpec == SearchInit /\ [][SearchNext]_vars

----------------------------------------------------------------------------
\* document_detail(request, pk), POST with mode 'qa', and the language-model
\* client it calls

\* views.py line 181: top_k=5, alpha=0.6 (a numerator over AlphaDen)
DefaultTopK == 5
DefaultAlpha == 12

\* views.py line 189: threshold = 0.35, a numerator over AlphaDen
Threshold == 7

BelowThresholdInclusive(score) == score * AlphaDen <= Threshold * FusedDen

\* views.py line 191: top_score < threshold
BelowThreshold(score) == score * AlphaDen < Threshold * FusedDen

\* views.py line 186: int(round(float(top_score) * 100)); Python rounds a half
\* to the even neighbour
RoundPercent(score) ==
    LET q == (100 * score) \div FusedDen
        r == (100 * score) % FusedDen
    IN  IF 2 * r < FusedDen THEN q
        ELSE IF 2 * r > FusedDen THEN q + 1
        ELSE IF q % 2 = 0 THEN q ELSE q + 1

\* What generate_answer_with_context can return, by how the completion call ends
LlmOutcomes == {"answer", "llm_call_failed", "llm_unknown_error"}

\* A search result list handed to the view by a stand-in for
\* hybrid_chunk_search: empty, or led by any score in [0, 1]
StubResults ==
    {<<>>} \cup {<<[rank |-> 1, score |-> k, text |-> 1]>> : k \in 0..FusedDen}

ViewInit ==
    /\ has_content \in BOOLEAN
    /\ question \in Queries
    /\ search_results = <<>>
    /\ top_score = NoValue
    /\ confidence = NoValue
    /\ llm_answer = "None"
    /\ llm_invoked = FALSE
    /\ api_key \in BOOLEAN
    /\ client \in (IF api_key THEN {"none", "set"} ELSE {"none"})
    /\ history = <<>>
    /\ raised = "none"
    /\ vpc = "post"

\* A request to a document: its chunks exist only if it has content
RequestInit ==
    /\ ChunkIdle
    /\ ViewInit
    /\ doc_chunks \in (IF has_content THEN 0..MaxChunks ELSE {0})
    /\ query = <<>>
    /\ top_k = 0
    /\ alpha = 0
    /\ bm25_scores = <<>>
    /\ semantic_scores = <<>>
    /\ bm25_norm = <<>>
    /\ sem_norm = <<>>
    /\ final_scores = <<>>
    /\ results = <<>>
    /\ bm25_built = FALSE
    /\ encode_calls = 0
    /\ spc = "idle"

\* views.py lines 176-179 and 223-224: read the question, branch on it
QaPost ==
    /\ vpc = "post"
    /\ question' = Strip(OrEmpty(question))
    /\ IF question' # <<>> /\ has_content
         THEN /\ vpc' = "search"
              /\ llm_answer' = llm_answer
         ELSE /\ vpc' = "done"
              /\ llm_answer' = "empty_question_or_content"
    /\ UNCHANGED <<has_content, search_results, top_score, confidence, llm_invoked,
                   client, api_key, history, raised>>
    /\ UNCHANGED <<chunkVars, searchVars>>

\* views.py line 181: the call of hybrid_chunk_search; an exception of the
\* embedding model leaves the view
QaSearch ==
    /\ vpc = "search"
    /\ SearchBody(doc_chunks, question, DefaultTopK, DefaultAlpha)
    /\ top_k' = DefaultTopK
    /\ alpha' = DefaultAlpha
    /\ IF spc' = "raised"
         THEN /\ vpc' = "crashed"
              /\ raised' = "embedding"
              /\ search_results' = search_results
         ELSE /\ vpc' = "gate"
              /\ raised' = raised
              /\ search_results' = results'
    /\ UNCHANGED <<has_content, question, top_score, confidence, llm_answer, llm_invoked,
                   client, api_key, history, doc_chunks>>
    /\ UNCHANGED chunkVars

\* The same line with hybrid_chunk_search replaced by a stand-in that may
\* return any result list
QaSearchStub ==
    /\ vpc = "search"
    /\ search_results' \in StubResults
    /\ vpc' = "gate"
    /\ UNCHANGED <<has_content, question, top_score, confidence, llm_answer, llm_invoked,
                   client, api_key, history, raised>>
    /\ UNCHANGED <<chunkVars, searchVars>>

\* views.py lines 183-196 and 220-222: confidence and the threshold decision
QaGate ==
    /\ vpc = "gate"
    /\ IF search_results # <<>>
         THEN /\ top_score' = search_results[1].score
              /\ confidence' = RoundPercent(top_score')
              /\ IF BelowThreshold(top_score')
                   THEN /\ llm_answer' = "refusal"
                        /\ vpc' = "save"
                   ELSE /\ llm_answer' = llm_answer
                        /\ vpc' = "llm"
         ELSE /\ top_score' = top_score
              /\ confidence' = NoValue
              /\ llm_answer' = "no_paragraph_found"
              /\ vpc' = "done"
    /\ UNCHANGED <<has_content, question, search_results, llm_invoked, client, api_key,
                   history, raised>>
    /\ UNCHANGED <<chunkVars, searchVars>>

\* views.py lines 199-207 calling llm_client.py lines 38-103:
\* generate_answer_with_context, with get_client (lines 18-35) first and
\* outside the try block
GenerateAnswer ==
    /\ vpc = "llm"
    /\ llm_invoked' = TRUE
    /\ IF client = "none" /\ ~api_key
         THEN /\ raised' = "RuntimeError"
              /\ vpc' = "crashed"
              /\ client' = client
              /\ llm_answer' = llm_answer
         ELSE /\ raised' = raised
              /\ vpc' = "save"
              /\ client' = "set"
              /\ llm_answer' \in LlmOutcomes
    /\ UNCHANGED <<has_content, question, search_results, top_score, confidence, api_key,
                   history>>
    /\ UNCHANGED <<chunkVars, searchVars>>

\* views.py lines 210-219: QuestionHistory.objects.create(...)
SaveHistory ==
    /\ vpc = "save"
    /\ history' = Append(history, [answer |-> llm_answer, confidence |-> confidence])
    /\ vpc' = "done"
    /\ UNCHANGED <<has_content, question, search_results, top_score, confidence, llm_answer,
                   llm_invoked, client, api_key, raised>>
    /\ UNCHANGED <<chunkVars, searchVars>>

Next == QaPost \/ QaSearch \/ QaGate \/ GenerateAnswer \/ SaveHistory

\* A 'qa' request served by the real search
Spec == RequestInit /\ [][Next]_vars

GateNext == QaPost \/ QaSearchStub \/ QaGate \/ GenerateAnswer \/ SaveHistory

\* A 'qa' request served by a stand-in search, to exercise the threshold
\* decision on every score
GateSpec == RequestInit /\ [][GateNext]_vars

\* Both entry points: a direct call of hybrid_chunk_search with any top_k and
\* alpha, or a 'qa' request, which calls it with top_k=5, alpha=0.6
PipelineInit == SearchInit \/ RequestInit

PipelineNext == HybridSearch \/ QaPost \/ QaSearch \/ QaGate \/ GenerateAnswer \/ SaveHistory

PipelineSpec == PipelineInit /\ [][PipelineNext]_vars

----------------------------------------------------------------------------
\* Properties of split_into_chunks

CeilDiv(a, b) == (a + b - 1) \div b

RECURSIVE Concat(_)
Concat(ss) == IF ss = <<>> THEN <<>> ELSE Head(ss) \o Concat(Tail(ss))

\* The chunks joined in order, the first `o` characters of every chunk but the
\* first removed (chunk[o:])
Reconstruct(cs, o) ==
    Concat([i \in 1..Len(cs) |-> IF i = 1 THEN cs[i] ELSE PySlice(cs[i], o, Len(cs[i]))])

ValidOverlap == max_chars > overlap /\ overlap >= 0

\* No window of the walk begins or ends on a whitespace character
NoBoundaryWhitespace ==
    \A i \in 1..Len(windows) :
        /\ text[windows[i][1] + 1] \notin Whitespace
        /\ text[windows[i][2]] \notin Whitespace

\* C2: a call with overlap >= max_chars is rejected or clamped, so the loop
\* never goes round with the window start failing to advance.
C2_InvalidOverlapNeverStalls ==
    [][(overlap >= max_chars /\ cpc = "loop" /\ cpc' = "loop") => start' > start]_vars

\* C4 as stated: for max_chars > overlap >= 0 the chunks, overlaps removed,
\* rebuild the trimmed text exactly.
C4_ReconstructsExactly ==
    (cpc = "done" /\ ValidOverlap) => Reconstruct(chunks, overlap) = text

\* C4 amended: for max_chars > overlap >= 0 the chunks, overlaps removed,
\* rebuild the trimmed text exactly whenever no window begins or ends on a
\* whitespace character.
C4_ReconstructsWithoutBoundaryWhitespace ==
    (cpc = "done" /\ ValidOverlap /\ NoBoundaryWhitespace)
        => Reconstruct(chunks, overlap) = text

C4_Witness ==
    /\ cpc = "done"
    /\ ValidOverlap
    /\ overlap >= 1
    /\ Len(chunks) >= 2
    /\ \E i \in 1..Len(text) : text[i] \in Whitespace
    /\ NoBoundaryWhitespace
    /\ Reconstruct(chunks, overlap) = text

\* At most ceil(len(text) / (max_chars - overlap)) loop bodies run, and fewer
\* have run while another one is still due
C8_IterBound ==
    (cpc # "call" /\ overlap < max_chars)
        => /\ iters <= CeilDiv(Len(text), max_chars - overlap)
           /\ (cpc = "loop" /\ start < n) => iters < CeilDiv(Len(text), max_chars - overlap)

C8_StartIncreases ==
    (overlap < max_chars /\ cpc = "loop" /\ cpc' = "loop") => start' > start

\* C8: with overlap < max_chars the loop ends, after at most
\* ceil(len(text) / (max_chars - overlap)) iterations, and the window start
\* grows on every iteration that continues.
C8_ChunkProgress ==
    /\ []C8_IterBound
    /\ [][C8_StartIncreases]_vars
    /\ [](overlap < max_chars => <>(cpc = "done"))

C8_Witness ==
    /\ cpc = "done"
    /\ overlap < max_chars
    /\ iters >= 2
    /\ iters = CeilDiv(Len(text), max_chars - overlap)

\* C11 as stated: a text of 1000 characters with max_chars=600, overlap=100
\* gives 3 chunks, built from the windows [0,600) and [500,1000), which
\* overlap by exactly 100 characters.
C11_ThreeChunks ==
    (cpc = "done" /\ Len(text) = 1000 /\ max_chars = 600 /\ overlap = 100)
        => /\ Len(chunks) = 3
           /\ windows = <<(<<0, 600>>), (<<500, 1000>>)>>
           /\ windows[1][2] - windows[2][1] = 100

\* C11 amended: a text of 1000 characters with max_chars=600, overlap=100
\* gives 2 chunks, the windows [0,600) and [500,1000) each stripped, and the
\* two windows overlap by exactly 100 characters.
C11_TwoChunks ==
    (cpc = "done" /\ Len(text) = 1000 /\ max_chars = 600 /\ overlap = 100)
        => /\ Len(chunks) = 2
           /\ windows = <<(<<0, 600>>), (<<500, 1000>>)>>
           /\ windows[1][2] - windows[2][1] = 100
           /\ chunks[1] = Strip(SubSeq(text, 1, 600))
           /\ chunks[2] = Strip(SubSeq(text, 501, 1000))

C11_Witness ==
    /\ cpc = "done"
    /\ Len(text) = 1000
    /\ max_chars = 600
    /\ overlap = 100
    /\ Len(chunks) = 2
    /\ Len(chunks[1]) = 599
    /\ Len(chunks[2]) = 500
    /\ iters = 2

----------------------------------------------------------------------------
\* Properties of hybrid_chunk_search

Scored == spc = "returned" /\ bm25_built

\* C5: results come by fused score descending, and of two chunks with equal
\* fused scores the one with the lower chunk index has the smaller rank.
C5_TiesLowerIndexFirst ==
    spc = "returned" =>
        \A i, j \in DOMAIN results :
            i < j => /\ results[i].score >= results[j].score
                     /\ results[i].score = results[j].score
                            => results[i].text < results[j].text

\* C6 as stated: for every top_k the result has at most min(top_k, number of
\* chunks) entries.
C6_TopKBound ==
    spc = "returned" => Len(results) <= Min(top_k, doc_chunks)

\* C6 amended: for every top_k >= 0 the result has at most min(top_k, number
\* of chunks) entries.
C6_TopKBoundNonNegative ==
    (spc = "returned" /\ top_k >= 0) => Len(results) <= Min(top_k, doc_chunks)

C6_Witness ==
    /\ Scored
    /\ top_k >= 1
    /\ top_k < doc_chunks
    /\ Len(results) = top_k

\* C7: with an empty, null or whitespace-only query, or a document without
\* chunks, the search returns an empty result, raises nothing and performs no
\* scoring: BM25 is not built and encode is not called.
C7_EmptyInputNoScoring ==
    (spc # "call" /\ spc # "idle" /\ (query = <<>> \/ doc_chunks = 0))
        => /\ spc = "returned"
           /\ results = <<>>
           /\ ~bm25_built
           /\ encode_calls = 0
           /\ bm25_scores = <<>>
           /\ semantic_scores = <<>>

C7_Witness ==
    /\ spc = "returned"
    /\ query = <<>>
    /\ doc_chunks > 0
    /\ results = <<>>
    /\ ~bm25_built
    /\ encode_calls = 0

\* raw is normalised to norm as the claim says
NormalisedAsClaimed(raw, norm) ==
    /\ DOMAIN norm = DOMAIN raw
    /\ \A i \in DOMAIN norm : 0 <= norm[i] /\ norm[i] <= NormDen
    /\ IF SeqMax(raw) - SeqMin(raw) >= Eps
         THEN \A i \in DOMAIN raw :
                /\ raw[i] = SeqMin(raw) => norm[i] = 0
                /\ raw[i] = SeqMax(raw) => norm[i] = NormDen
         ELSE \A i \in DOMAIN raw : norm[i] = NormDen

\* C9: each normalised vector lies in [0,1]; with max - min >= 1e-9 the
\* minimum maps to 0 and the maximum to 1, otherwise every element maps to 1;
\* a single chunk gets the fused score 1 for any alpha.
C9_NormalisationDefined ==
    Scored =>
        /\ NormalisedAsClaimed(bm25_scores, bm25_norm)
        /\ NormalisedAsClaimed(semantic_scores, sem_norm)
        /\ doc_chunks = 1 => final_scores[1] = FusedDen

C9_Witness ==
    /\ Scored
    /\ SeqMax(bm25_scores) - SeqMin(bm25_scores) >= Eps
    /\ SeqMax(semantic_scores) - SeqMin(semantic_scores) = Eps - 1
    /\ \E i \in DOMAIN bm25_norm : bm25_norm[i] = 0
    /\ \A i \in DOMAIN sem_norm : sem_norm[i] = NormDen

\* C10 as stated: a larger alpha gives a larger fused score to a chunk whose
\* semantic-normalised score exceeds its BM25-normalised score, and a smaller
\* one to every other chunk.
C10_FusionMonotone ==
    Scored =>
        \A i \in DOMAIN final_scores : \A a \in 0..AlphaDen :
            a > alpha =>
                IF sem_norm[i] > bm25_norm[i]
                  THEN Fuse(a, sem_norm[i], bm25_norm[i]) > final_scores[i]
                  ELSE Fuse(a, sem_norm[i], bm25_norm[i]) < final_scores[i]

\* C10 amended: a larger alpha gives a larger fused score to a chunk whose
\* semantic-normalised score exceeds its BM25-normalised score, a smaller one
\* to a chunk whose semantic-normalised score is below it, and the same score
\* to a chunk whose two normalised scores are equal.
C10_FusionMonotoneOrEqual ==
    Scored =>
        \A i \in DOMAIN final_scores : \A a \in 0..AlphaDen :
            a > alpha =>
                /\ sem_norm[i] > bm25_norm[i]
                      => Fuse(a, sem_norm[i], bm25_norm[i]) > final_scores[i]
                /\ sem_norm[i] < bm25_norm[i]
                      => Fuse(a, sem_norm[i], bm25_norm[i]) < final_scores[i]
                /\ sem_norm[i] = bm25_norm[i]
                      => Fuse(a, sem_norm[i], bm25_norm[i]) = final_scores[i]

C10_Witness ==
    /\ Scored
    /\ alpha < AlphaDen
    /\ \E i, j \in DOMAIN final_scores :
          /\ sem_norm[i] > bm25_norm[i]
          /\ sem_norm[j] = bm25_norm[j]

----------------------------------------------------------------------------
\* Properties of document_detail and the language-model client

GateDecided == search_results # <<>> /\ vpc \in {"llm", "save", "done", "crashed"}

\* c is 100 * score / FusedDen rounded to the nearest integer, a half to even
IsRoundedPercent(c, score) ==
    LET d == 100 * score - c * FusedDen
        dist == IF d < 0 THEN 0 - d ELSE d
    IN  /\ 2 * dist <= FusedDen
        /\ 2 * dist = FusedDen => c % 2 = 0

\* C1: for a non-empty search result generate_answer_with_context is called
\* exactly when the top score is >= 0.35; below it the model is never called
\* and the answer is the refusal message; confidence is round(top score * 100)
\* either way.
C1_ConfidenceGate ==
    GateDecided =>
        LET top == search_results[1].score
        IN  /\ top_score = top
            /\ (llm_invoked \/ vpc = "llm") <=> top * AlphaDen >= Threshold * FusedDen
            /\ top * AlphaDen < Threshold * FusedDen
                  => ~llm_invoked /\ llm_answer = "refusal"
            /\ IsRoundedPercent(confidence, top)
            /\ \A i \in DOMAIN history : history[i].confidence = confidence

C1_Witness ==
    /\ vpc = "done"
    /\ search_results # <<>>
    /\ search_results[1].score * AlphaDen = Threshold * FusedDen
    /\ llm_invoked
    /\ llm_answer = "answer"
    /\ confidence = 35

\* C3: generate_answer_with_context never lets an exception out: once called
\* it returns a string, and document_detail does not crash because of it.
C3_LlmNeverPropagates ==
    llm_invoked => /\ raised = "none"
                   /\ vpc # "crashed"
                   /\ llm_answer \in LlmOutcomes

====
